---- MODULE Spec2Model ----
(***************************************************************************)
(* RedCast backend: format selection and ffmpeg pipe delivery              *)
(* (src/downloader.py, src/main.py).                                       *)
(*                                                                         *)
(* Python strings on which the code does substring tests, lower(),         *)
(* isdigit(), int() or re.sub are modelled as sequences of one-character   *)
(* strings.  A missing / None numeric field ('height', 'tbr') is modelled  *)
(* as 0: every real height is a positive integer and the code itself reads *)
(* these fields as (x or 0).                                               *)
(***************************************************************************)
EXTENDS Integers, Sequences, FiniteSets, TLC

VARIABLES
    info,               \* result of ydl.extract_info: [has_title, title, formats]
    quality,            \* request argument "quality"
    mode,               \* request argument "mode"
    pc,                 \* position of stream_media: start, planned, returned, raised
    error,              \* message of the exception stream_media raised, "" if none
    selected_video_fmt, \* stream_media local
    best_audio,         \* stream_media local (its url is audio_url)
    ext,                \* stream_media local
    filename,           \* stream_media local
    cmd,                \* the ffmpeg invocation plan (input/map/codec/output args)
    proc,               \* ffmpeg: none, running, exiting, exited
    exit_status,        \* status ffmpeg exits with
    killed,             \* ffmpeg died from the SIGTERM of process.terminate()
    sigterm,            \* SIGTERM sent and not yet acted upon
    reaped,             \* process.returncode is set (poll()/wait() saw the exit)
    pipe,               \* chunks written to stdout and not yet read
    produced,           \* chunks ffmpeg has written so far
    stdout_open,        \* process.stdout not closed
    stderr_open,        \* process.stderr not closed
    gen_pc,             \* _stream_subprocess generator position
    yielded,            \* chunks yielded to the consumer
    eof_seen,           \* the relay loop read b'' and left the loop
    reported            \* logger.error("FFmpeg process failed ...") was emitted

vars == <<info, quality, mode, pc, error, selected_video_fmt, best_audio, ext,
          filename, cmd, proc, exit_status, killed, sigterm, reaped, pipe,
          produced, stdout_open, stderr_open, gen_pc, yielded, eof_seen, reported>>

planVars == <<selected_video_fmt, best_audio, ext, filename, cmd>>
procVars == <<proc, exit_status, killed, sigterm, reaped, pipe, produced,
              stdout_open, stderr_open>>
genVars  == <<gen_pc, yielded, eof_seen, reported>>
reqVars  == <<info, quality, mode>>

-----------------------------------------------------------------------------
(* Bounds of the model *)

MaxVideoFormats == 2
MaxAudioFormats == 3
MaxStreamFormats == 1
MaxPrefix == 2
MaxCodecFormats == 2
MaxChunks == 2

-----------------------------------------------------------------------------
(* Python string primitives *)

\* sub in s
Contains(s, sub) ==
    \E i \in 0..(Len(s) - Len(sub)) :
        \A k \in 1..Len(sub) : s[i + k] = sub[k]

LowerChar(c) ==
    CASE c = "V" -> "v" [] c = "P" -> "p" [] c = "W" -> "w" [] c = "E" -> "e"
      [] c = "B" -> "b" [] c = "M" -> "m" [] c = "I" -> "i" [] c = "D" -> "d"
      [] c = "O" -> "o" [] c = "A" -> "a" [] c = "U" -> "u" [] OTHER -> c

\* s.lower()
Lower(s) == [i \in DOMAIN s |-> LowerChar(s[i])]

Digits == {"0", "1", "2", "3", "4", "5", "6", "7", "8", "9"}

DigitVal(c) ==
    CASE c = "0" -> 0 [] c = "1" -> 1 [] c = "2" -> 2 [] c = "3" -> 3
      [] c = "4" -> 4 [] c = "5" -> 5 [] c = "6" -> 6 [] c = "7" -> 7
      [] c = "8" -> 8 [] c = "9" -> 9

\* characters str.isdigit() accepts and int() rejects, such as U+00B2
\* SUPERSCRIPT TWO, which is written "sup2" here
OtherDigits == {"sup2"}

\* str(s).isdigit()
IsDigit(s) ==
    Len(s) > 0 /\ \A i \in DOMAIN s : s[i] \in Digits \cup OtherDigits

\* int(s) raises ValueError
IntRaises(s) == Len(s) = 0 \/ \E i \in DOMAIN s : s[i] \notin Digits

RECURSIVE ParseInt(_)
\* int(s) when it does not raise
ParseInt(s) ==
    IF Len(s) = 0 THEN 0
    ELSE 10 * ParseInt(SubSeq(s, 1, Len(s) - 1)) + DigitVal(s[Len(s)])

\* a > b for two tuples of numbers of the same length, as Python compares them
TupleGreater(a, b) ==
    \E k \in DOMAIN a : a[k] > b[k] /\ \A l \in 1..(k - 1) : a[l] = b[l]

\* max(s, key=...), keys[i] being the key of s[i]: the first element whose key
\* no other key is greater than
MaxFirst(s, keys) ==
    s[CHOOSE i \in DOMAIN s :
        /\ \A j \in DOMAIN s : ~TupleGreater(keys[j], keys[i])
        /\ \A j \in 1..(i - 1) : TupleGreater(keys[i], keys[j])]

-----------------------------------------------------------------------------
(* Codec and mode strings *)

sNone == <<"n", "o", "n", "e">>
sAv01 == <<"a", "v", "0", "1">>
sVp9  == <<"v", "p", "9">>
sVp09 == <<"v", "p", "0", "9">>
sAvc  == <<"a", "v", "c">>
sH264 == <<"h", "2", "6", "4">>
sOpus == <<"o", "p", "u", "s">>
sMp4a == <<"m", "p", "4", "a">>
sVideo == <<"v", "i", "d", "e", "o">>
sVid  == <<"v", "i", "d">>
sWebm == <<"w", "e", "b", "m">>
s320  == <<"3", "2", "0">>
s128  == <<"1", "2", "8">>
s64   == <<"6", "4">>
s1080 == <<"1", "0", "8", "0">>

\* None: no format selected
NoFormat == [format_id |-> 0, url |-> 0, vcodec |-> sNone, acodec |-> sNone,
             height |-> 0, tbr |-> 0]

NoCmd == [inputs |-> <<>>, map |-> <<>>, cv |-> "", crf |-> "", ca |-> "",
          ba |-> "", f |-> ""]

-----------------------------------------------------------------------------
(* _get_best_video_format_id *)

IsVideoFormat(f) == f.vcodec # sNone /\ f.height # 0

VideoFormats(formats) == SelectSeq(formats, IsVideoFormat)

\* fault variant of ExactMatches: "at most the target" instead of "exactly"
ExactMatches_AtMost(video_formats, target_height) ==
    SelectSeq(video_formats, LAMBDA f : f.height <= target_height)

ExactMatches(video_formats, target_height) ==
    SelectSeq(video_formats, LAMBDA f : f.height = target_height)

TierBonus(vcodec) ==
    IF Contains(vcodec, sAv01) THEN 15000
    ELSE IF Contains(vcodec, sVp9) \/ Contains(vcodec, sVp09) THEN 10000
    ELSE IF Contains(vcodec, sAvc) \/ Contains(vcodec, sH264) THEN 8000
    ELSE 0

score_format(f) == TierBonus(Lower(f.vcodec)) + f.tbr

BestExact(exact_matches) ==
    MaxFirst(exact_matches,
             [i \in DOMAIN exact_matches |-> <<score_format(exact_matches[i])>>])

\* fault variant of BestAvailable: the key is (tbr, height)
BestAvailable_ByBitrate(video_formats) ==
    MaxFirst(video_formats,
             [i \in DOMAIN video_formats |->
                <<video_formats[i].tbr, video_formats[i].height>>])

\* fault variant of BestAvailable: min() instead of max()
BestAvailable_Lowest(video_formats) ==
    MaxFirst(video_formats,
             [i \in DOMAIN video_formats |->
                <<0 - video_formats[i].height, 0 - video_formats[i].tbr>>])

BestAvailable(video_formats) ==
    MaxFirst(video_formats,
             [i \in DOMAIN video_formats |->
                <<video_formats[i].height, video_formats[i].tbr>>])

\* returns a format_id, 0 for None
GetBestVideoFormatId(formats, target_height) ==
    LET video_formats == VideoFormats(formats)
        exact_matches == ExactMatches(video_formats, target_height)
    IN  IF Len(video_formats) = 0 THEN 0
        ELSE IF Len(exact_matches) > 0 THEN BestExact(exact_matches).format_id
        ELSE BestAvailable(video_formats).format_id

\* _get_crf_for_height
GetCrfForHeight(h) ==
    IF h >= 4320 THEN "19"
    ELSE IF h >= 2160 THEN "20"
    ELSE IF h >= 1440 THEN "21"
    ELSE IF h >= 1080 THEN "22"
    ELSE IF h >= 720 THEN "23"
    ELSE IF h >= 480 THEN "24"
    ELSE "25"

-----------------------------------------------------------------------------
(* stream_media: request decoding *)

\* target_height = quality if quality else '1080'
TargetHeight(q) == IF Len(q) > 0 THEN q ELSE s1080

\* int(target_height) if str(target_height).isdigit() else 1080
TargetHeightInt(q) ==
    IF IsDigit(TargetHeight(q)) THEN ParseInt(TargetHeight(q)) ELSE 1080

\* the conversion above raises ValueError
TargetHeightRaises(q) ==
    IsDigit(TargetHeight(q)) /\ IntRaises(TargetHeight(q))

\* "video" in mode or "vid" == mode or "webm" in mode   (mode already lowered)
IsVideo(m) == Contains(m, sVideo) \/ m = sVid \/ Contains(m, sWebm)

Ext(m) ==
    IF IsVideo(m) THEN (IF Contains(m, sWebm) THEN "webm" ELSE "mp4") ELSE "mp3"

ExtChars(e) ==
    CASE e = "webm" -> sWebm
      [] e = "mp4" -> <<"m", "p", "4">>
      [] e = "mp3" -> <<"m", "p", "3">>

-----------------------------------------------------------------------------
(* stream_media: video selection *)

\* next((f for f in formats if f['format_id'] == video_id), None)
LookupFormat(formats, video_id) ==
    IF \E i \in DOMAIN formats : formats[i].format_id = video_id
    THEN formats[CHOOSE i \in DOMAIN formats :
                    /\ formats[i].format_id = video_id
                    /\ \A j \in 1..(i - 1) : formats[j].format_id # video_id]
    ELSE NoFormat

\* the "last resort fallback": highest candidate, None without candidates
LastResort(formats) ==
    LET candidates == SelectSeq(formats, IsVideoFormat)
    IN  IF Len(candidates) > 0
        THEN MaxFirst(candidates,
                      [i \in DOMAIN candidates |-> <<candidates[i].height>>])
        ELSE NoFormat

SelectVideo(formats, target_height_int) ==
    LET video_id == GetBestVideoFormatId(formats, target_height_int)
        found == IF video_id # 0 THEN LookupFormat(formats, video_id) ELSE NoFormat
    IN  IF found # NoFormat THEN found ELSE LastResort(formats)

-----------------------------------------------------------------------------
(* stream_media: audio selection *)

IsAudioOnly(f) == f.acodec # sNone /\ f.vcodec = sNone

HasAudio(f) == f.acodec # sNone

\* key=lambda f: (f.get('tbr') or 0), for every element of s
BitrateKeys(s) == [i \in DOMAIN s |-> <<s[i].tbr>>]

\* max(s, key=lambda f: (f.get('tbr') or 0))
MaxBitrate(s) == MaxFirst(s, BitrateKeys(s))

\* the codec family preferred for the container: 'opus' for webm, 'mp4a' for mp4
PreferredAudio(audio_candidates, e) ==
    IF e = "webm"
    THEN SelectSeq(audio_candidates, LAMBDA f : Contains(f.acodec, sOpus))
    ELSE SelectSeq(audio_candidates, LAMBDA f : Contains(f.acodec, sMp4a))

\* the separate audio input of video mode, None when none is used
PairAudio(formats, video_fmt, e) ==
    IF video_fmt # NoFormat /\ video_fmt.acodec # sNone THEN NoFormat
    ELSE LET audio_candidates == SelectSeq(formats, IsAudioOnly)
             preferred == PreferredAudio(audio_candidates, e)
         IN  IF Len(audio_candidates) = 0 THEN NoFormat
             ELSE MaxBitrate(IF Len(preferred) > 0 THEN preferred
                             ELSE audio_candidates)

\* fault variant of BestAudioOnly: the audio-only filter of video mode
BestAudioOnly_NoMuxed(formats) ==
    LET audio_candidates == SelectSeq(formats, IsAudioOnly)
    IN  IF Len(audio_candidates) = 0 THEN NoFormat
        ELSE MaxBitrate(audio_candidates)

\* the input of audio mode, None when no format carries audio
BestAudioOnly(formats) ==
    LET audio_candidates == SelectSeq(formats, HasAudio)
    IN  IF Len(audio_candidates) = 0 THEN NoFormat
        ELSE MaxBitrate(audio_candidates)

-----------------------------------------------------------------------------
(* stream_media: filename *)

TitleLimit == 200

Letters == {"a", "b", "c", "d", "e", "f", "g", "h", "i", "j", "k", "l", "m",
            "n", "o", "p", "q", "r", "s", "t", "u", "v", "w", "x", "y", "z",
            "A", "B", "C", "D", "E", "F", "G", "H", "I", "J", "K", "L", "M",
            "N", "O", "P", "Q", "R", "S", "T", "U", "V", "W", "X", "Y", "Z"}

\* the characters the class [\w\-_\. ] matches
KeptChars == Letters \cup Digits \cup {"_", "-", ".", " "}

\* re.sub(r'[^\w\-_\. ]', '_', title)
ReSub(title) ==
    [i \in DOMAIN title |-> IF title[i] \in KeptChars THEN title[i] ELSE "_"]

\* s[:n]
Prefix(s, n) == SubSeq(s, 1, IF Len(s) < n THEN Len(s) ELSE n)

\* info_full.get('title', 'video')
Title(i) == IF i.has_title THEN i.title ELSE sVideo

SafeTitle(i) == Prefix(ReSub(Title(i)), TitleLimit)

Filename(i, e) == SafeTitle(i) \o <<".">> \o ExtChars(e)

-----------------------------------------------------------------------------
(* stream_media: the ffmpeg plan *)

IsVp9(vcodec) == Contains(vcodec, sVp9) \/ Contains(vcodec, sVp09)

\* fault variant of VideoCodecArgs: H.264 sources are copied into MP4
VideoCodecArgs_CopyH264(video_fmt, e, target_height_int, two_inputs) ==
    LET vcodec == Lower(video_fmt.vcodec)
        height == IF video_fmt.height # 0 THEN video_fmt.height
                  ELSE target_height_int
        crf_value == GetCrfForHeight(height)
    IN  IF e = "webm"
        THEN IF IsVp9(vcodec)
             THEN [cv |-> "copy", crf |-> "",
                   ca |-> IF two_inputs THEN "libopus" ELSE "copy",
                   ba |-> IF two_inputs THEN "192k" ELSE ""]
             ELSE [cv |-> "libvpx-vp9", crf |-> crf_value, ca |-> "libopus",
                   ba |-> "192k"]
        ELSE IF Contains(vcodec, sAvc) \/ Contains(vcodec, sH264)
             THEN [cv |-> "copy", crf |-> "", ca |-> "aac", ba |-> "192k"]
             ELSE [cv |-> "libx264", crf |-> crf_value, ca |-> "aac",
                   ba |-> "192k"]

\* -c:v / -crf / -c:a / -b:a of a video plan; two_inputs: video_url and audio_url
VideoCodecArgs(video_fmt, e, target_height_int, two_inputs) ==
    LET vcodec == Lower(video_fmt.vcodec)
        height == IF video_fmt.height # 0 THEN video_fmt.height
                  ELSE target_height_int
        crf_value == GetCrfForHeight(height)
    IN  IF e = "webm"
        THEN IF IsVp9(vcodec)
             THEN [cv |-> "copy", crf |-> "",
                   ca |-> IF two_inputs THEN "libopus" ELSE "copy",
                   ba |-> IF two_inputs THEN "192k" ELSE ""]
             ELSE [cv |-> "libvpx-vp9", crf |-> crf_value, ca |-> "libopus",
                   ba |-> "192k"]
        ELSE [cv |-> "libx264", crf |-> crf_value, ca |-> "aac", ba |-> "192k"]

AudioBitrate(m) ==
    IF Contains(m, s320) THEN "320k"
    ELSE IF Contains(m, s128) THEN "128k"
    ELSE IF Contains(m, s64) THEN "64k"
    ELSE "192k"

BuildCmd(m, e, video_fmt, audio_fmt, target_height_int) ==
    IF IsVideo(m)
    THEN LET two == audio_fmt # NoFormat
             c == VideoCodecArgs(video_fmt, e, target_height_int, two)
         IN  [inputs |-> IF two THEN <<video_fmt.url, audio_fmt.url>>
                         ELSE <<video_fmt.url>>,
              map |-> IF two THEN <<"0:v:0", "1:a:0">> ELSE <<>>,
              cv |-> c.cv, crf |-> c.crf, ca |-> c.ca, ba |-> c.ba, f |-> e]
    ELSE [inputs |-> <<audio_fmt.url>>, map |-> <<>>, cv |-> "", crf |-> "",
          ca |-> "libmp3lame", ba |-> AudioBitrate(m), f |-> "mp3"]

\* the exception raised while the plan is built, "" when none is
PlanError(m, video_fmt, audio_fmt) ==
    IF IsVideo(m)
    THEN IF video_fmt = NoFormat THEN "Could not find suitable video stream"
         ELSE ""
    ELSE IF audio_fmt = NoFormat THEN "No suitable stream found" ELSE ""

\* stream_media up to the point where the ffmpeg command line is complete
BuildPlan ==
    /\ pc = "start"
    /\ LET m == Lower(mode)
           e == Ext(m)
           th == TargetHeightInt(quality)
           v == IF IsVideo(m) THEN SelectVideo(info.formats, th) ELSE NoFormat
           a == IF IsVideo(m) THEN PairAudio(info.formats, v, e)
                ELSE BestAudioOnly(info.formats)
           err == PlanError(m, v, a)
       IN  IF IsVideo(m) /\ TargetHeightRaises(quality)
           THEN /\ ext' = e
                /\ error' = "ValueError"
                /\ pc' = "raised"
                /\ UNCHANGED <<selected_video_fmt, best_audio, filename, cmd>>
           ELSE /\ selected_video_fmt' = v
                /\ best_audio' = a
                /\ ext' = e
                /\ filename' = Filename(info, e)
                /\ error' = err
                /\ cmd' = IF err = "" THEN BuildCmd(m, e, v, a, th) ELSE NoCmd
                /\ pc' = IF err = "" THEN "planned" ELSE "raised"
    /\ UNCHANGED <<reqVars, procVars, genVars>>

-----------------------------------------------------------------------------
(* Requests: the catalogs, qualities, modes and titles the model draws from *)

cAvc1 == <<"a", "v", "c", "1">>
cHev1 == <<"h", "e", "v", "1">>
cVorbis == <<"v", "o", "r", "b", "i", "s">>
cMp4a == <<"m", "p", "4", "a", ".", "4", "0", ".", "2">>

SeqsUpTo(S, n) == UNION {[1..k -> S] : k \in 0..n}

\* a catalog: format_id and url are unique within it (the position)
MkFormats(bodies) ==
    [i \in DOMAIN bodies |->
        [format_id |-> i, url |-> i, vcodec |-> bodies[i].vcodec,
         acodec |-> bodies[i].acodec, height |-> bodies[i].height,
         tbr |-> bodies[i].tbr]]

MkInfo(title, bodies) ==
    [has_title |-> TRUE, title |-> title, formats |-> MkFormats(bodies)]

q240 == <<"2", "4", "0">>
q500 == <<"5", "0", "0">>
q720 == <<"7", "2", "0">>
qHd  == <<"h", "d">>
qSup2 == <<"sup2">>
mAudio == <<"a", "u", "d", "i", "o">>
mAudio128 == <<"a", "u", "d", "i", "o", "1", "2", "8">>
mVideoWebm == <<"V", "i", "d", "e", "o", "+", "W", "e", "b", "M">>

\* video-only formats of every codec tier, with and without height and bitrate
VideoBodies ==
    [vcodec : {sAv01, sVp09, cAvc1, cHev1, sNone}, acodec : {sNone},
     height : {0, 360, 720}, tbr : {0, 1000, 3500}]

\* muxed and audio-only formats of every audio codec family
AudioBodies ==
    [vcodec : {sNone}, acodec : {sNone, sOpus, cVorbis, cMp4a},
     height : {0}, tbr : {0, 64, 128}]
    \cup [vcodec : {cAvc1}, acodec : {sNone, cMp4a}, height : {720}, tbr : {128}]

Idle ==
    /\ pc = "start"
    /\ error = ""
    /\ selected_video_fmt = NoFormat
    /\ best_audio = NoFormat
    /\ ext = ""
    /\ filename = <<>>
    /\ cmd = NoCmd
    /\ proc = "none"
    /\ exit_status = 0
    /\ killed = FALSE
    /\ sigterm = FALSE
    /\ reaped = FALSE
    /\ pipe = 0
    /\ produced = 0
    /\ stdout_open = FALSE
    /\ stderr_open = FALSE
    /\ gen_pc = "none"
    /\ yielded = 0
    /\ eof_seen = FALSE
    /\ reported = FALSE

InitVideo ==
    /\ info \in {MkInfo(sVideo, b) : b \in SeqsUpTo(VideoBodies, MaxVideoFormats)}
    /\ quality \in {q240, q500, q720, qHd, qSup2}
    /\ mode = sVideo
    /\ Idle

SpecVideo == InitVideo /\ [][BuildPlan]_vars

InitAudio ==
    /\ info \in {MkInfo(sVideo, b) : b \in SeqsUpTo(AudioBodies, MaxAudioFormats)}
    /\ quality = q720
    /\ mode \in {sVideo, sWebm, mAudio}
    /\ Idle

SpecAudio == InitAudio /\ [][BuildPlan]_vars

cVP9 == <<"V", "P", "9">>

\* video formats, with and without an audio track, at a height in every CRF
\* band, and one audio-only format
CodecBodies ==
    [vcodec : {sVp09, cVP9, cAvc1, sAv01}, acodec : {sNone, cMp4a},
     height : {360, 480, 720, 1080, 1440, 2160, 4320}, tbr : {1000}]
    \cup {[vcodec |-> sNone, acodec |-> sOpus, height |-> 0, tbr |-> 128]}

InitCodec ==
    /\ info \in {MkInfo(sVideo, b) : b \in SeqsUpTo(CodecBodies, MaxCodecFormats)}
    /\ quality = q720
    /\ mode \in {sVideo, mVideoWebm}
    /\ Idle

SpecCodec == InitCodec /\ [][BuildPlan]_vars

\* titles: a short prefix of any characters, then a run of one character
TitleChars == {"a", "Z", "7", "-", "_", ".", " ", "/", "?", "\""}

Run(c, n) == [i \in 1..n |-> c]

Titles ==
    {p \o Run(c, n) :
        p \in SeqsUpTo(TitleChars, MaxPrefix), c \in TitleChars,
        n \in {0, TitleLimit - 1, TitleLimit, TitleLimit + 1}}

MuxedBody == [vcodec |-> cAvc1, acodec |-> cMp4a, height |-> 720, tbr |-> 1000]

InitTitle ==
    /\ info \in {MkInfo(t, <<MuxedBody>>) : t \in Titles}
               \cup {[has_title |-> FALSE, title |-> <<>>,
                      formats |-> MkFormats(<<MuxedBody>>)]}
    /\ quality = q720
    /\ mode \in {sVideo, sWebm, mAudio}
    /\ Idle

SpecTitle == InitTitle /\ [][BuildPlan]_vars

-----------------------------------------------------------------------------
(* stream_media: starting ffmpeg *)

\* the statuses ffmpeg exits with on its own
ExitStatuses == {0, 1}

\* Popen, time.sleep(0.5), process.poll(): ffmpeg is still running and the
\* generator is returned, or it has exited and stream_media raises
StartProcess ==
    /\ pc = "planned"
    /\ stdout_open' = TRUE
    /\ stderr_open' = TRUE
    /\ \/ /\ proc' = "running"
          /\ pc' = "returned"
          /\ gen_pc' = "unstarted"
          /\ UNCHANGED <<exit_status, reaped, error>>
       \/ \E st \in ExitStatuses :
             /\ proc' = "exited"
             /\ exit_status' = st
             /\ reaped' = TRUE
             /\ error' = "FFmpeg failed to start"
             /\ pc' = "raised"
             /\ UNCHANGED gen_pc
    /\ UNCHANGED <<reqVars, planVars, killed, sigterm, pipe, produced,
                   yielded, eof_seen, reported>>

-----------------------------------------------------------------------------
(* The ffmpeg process, concurrent with the relay loop *)

\* ffmpeg writes one chunk of output to its stdout pipe
FfmpegWrite ==
    /\ proc = "running"
    /\ stdout_open
    /\ produced < MaxChunks
    /\ pipe' = pipe + 1
    /\ produced' = produced + 1
    /\ UNCHANGED <<reqVars, planVars, genVars, pc, error, proc, exit_status,
                   killed, sigterm, reaped, stdout_open, stderr_open>>

\* ffmpeg calls exit(st): its descriptors are closed (the reader gets EOF
\* once the pipe is drained) before its status can be collected
FfmpegBeginExit ==
    /\ proc = "running"
    /\ \E st \in ExitStatuses : exit_status' = st
    /\ proc' = "exiting"
    /\ UNCHANGED <<reqVars, planVars, genVars, pc, error, killed, sigterm,
                   reaped, pipe, produced, stdout_open, stderr_open>>

\* the exiting process becomes a zombie: poll() / wait() now see its status
FfmpegExit ==
    /\ proc = "exiting"
    /\ proc' = "exited"
    /\ UNCHANGED <<reqVars, planVars, genVars, pc, error, exit_status, killed,
                   sigterm, reaped, pipe, produced, stdout_open, stderr_open>>

\* a SIGTERM that process.wait(timeout=1) did not see acted upon ends ffmpeg
FfmpegTerminated ==
    /\ proc = "running"
    /\ sigterm
    /\ proc' = "exited"
    /\ killed' = TRUE
    /\ exit_status' = -15
    /\ sigterm' = FALSE
    /\ UNCHANGED <<reqVars, planVars, genVars, pc, error, reaped, pipe,
                   produced, stdout_open, stderr_open>>

-----------------------------------------------------------------------------
(* _stream_subprocess and its consumer (the WSGI response iteration) *)

\* next(generator): runs the body up to the blocking read
ConsumerNext ==
    /\ pc = "returned"
    /\ gen_pc \in {"unstarted", "yield"}
    /\ gen_pc' = "read"
    /\ UNCHANGED <<reqVars, planVars, procVars, pc, error, yielded, eof_seen,
                   reported>>

\* process.stdout.read(128 * 1024): a chunk is yielded, or b'' ends the loop
GenRead ==
    /\ gen_pc = "read"
    /\ \/ /\ pipe > 0
          /\ pipe' = pipe - 1
          /\ yielded' = yielded + 1
          /\ gen_pc' = "yield"
          /\ UNCHANGED eof_seen
       \/ /\ pipe = 0
          /\ proc \in {"exiting", "exited"}
          /\ eof_seen' = TRUE
          /\ gen_pc' = "poll"
          /\ UNCHANGED <<pipe, yielded>>
    /\ UNCHANGED <<reqVars, planVars, pc, error, proc, exit_status, killed,
                   sigterm, reaped, produced, stdout_open, stderr_open, reported>>

\* if process.poll() is not None and process.returncode != 0: log stderr
GenPoll ==
    /\ gen_pc = "poll"
    /\ reaped' = (reaped \/ proc = "exited")
    /\ reported' = (reported \/ (proc = "exited" /\ exit_status # 0))
    /\ gen_pc' = "finally"
    /\ UNCHANGED <<reqVars, planVars, pc, error, proc, exit_status, killed,
                   sigterm, pipe, produced, stdout_open, stderr_open, yielded,
                   eof_seen>>

\* generator.close(): a generator that never ran just ends, without entering
\* its try block; one suspended at yield gets GeneratorExit and goes to finally
ConsumerClose ==
    /\ pc = "returned"
    /\ gen_pc \in {"unstarted", "yield"}
    /\ gen_pc' = IF gen_pc = "unstarted" THEN "closed" ELSE "finally"
    /\ UNCHANGED <<reqVars, planVars, procVars, pc, error, yielded, eof_seen,
                   reported>>

\* the finally block: stdout.close(), stderr.close(), terminate(),
\* wait(timeout=1).  A process that has not exited yet either exits within the
\* timeout or wait() raises TimeoutExpired, which is caught and logged
GenCleanup ==
    /\ gen_pc = "finally"
    /\ stdout_open' = FALSE
    /\ stderr_open' = FALSE
    /\ \/ /\ proc = "exited"
          /\ reaped' = TRUE
          /\ UNCHANGED <<proc, exit_status, killed, sigterm>>
       \/ /\ proc = "exiting"
          /\ \/ proc' = "exited" /\ reaped' = TRUE
             \/ UNCHANGED <<proc, reaped>>
          /\ UNCHANGED <<exit_status, killed, sigterm>>
       \/ /\ proc = "running"
          /\ \/ /\ proc' = "exited"
                /\ killed' = TRUE
                /\ exit_status' = -15
                /\ reaped' = TRUE
                /\ UNCHANGED sigterm
             \/ /\ sigterm' = TRUE
                /\ UNCHANGED <<proc, exit_status, killed, reaped>>
    /\ gen_pc' = "done"
    /\ UNCHANGED <<reqVars, planVars, pc, error, pipe, produced, yielded,
                   eof_seen, reported>>

-----------------------------------------------------------------------------
(* The download request: stream_media, then delivery of the byte sequence *)

StreamBodies ==
    {MuxedBody,
     [vcodec |-> sVp09, acodec |-> sNone, height |-> 1080, tbr |-> 3500],
     [vcodec |-> sNone, acodec |-> sOpus, height |-> 0, tbr |-> 128]}

Init ==
    /\ info \in {MkInfo(sVideo, b) : b \in SeqsUpTo(StreamBodies, MaxStreamFormats)}
    /\ quality \in {<<>>, q720, qHd, qSup2}
    /\ mode \in {sVideo, sVid, mVideoWebm, mAudio128}
    /\ Idle

Next ==
    \/ BuildPlan
    \/ StartProcess
    \/ FfmpegWrite
    \/ FfmpegBeginExit
    \/ FfmpegExit
    \/ FfmpegTerminated
    \/ ConsumerNext
    \/ GenRead
    \/ GenPoll
    \/ ConsumerClose
    \/ GenCleanup

Spec == Init /\ [][Next]_vars

-----------------------------------------------------------------------------
(* Vocabulary of the claims, stated on the request and the catalog *)

Formats == info.formats

\* the height the request asks for
Target == TargetHeightInt(quality)

VideoMode == IsVideo(Lower(mode))

\* stream_media has decoded the request and finished selecting (it built the
\* plan or raised on the selection)
Selected == pc # "start" /\ error # "ValueError"

\* stream_media has left its selection part, by any exit
Left == pc # "start"

\* positions of the catalog's video formats: a video codec and a height
VideoSet == {i \in DOMAIN Formats :
                Formats[i].vcodec # sNone /\ Formats[i].height # 0}

ExactSet == {i \in VideoSet : Formats[i].height = Target}
BelowSet == {i \in VideoSet : Formats[i].height < Target}
AboveSet == {i \in VideoSet : Formats[i].height > Target}

HeightsOf(S) == {Formats[i].height : i \in S}

MaxOf(S) == CHOOSE x \in S : \A y \in S : y <= x
MinOf(S) == CHOOSE x \in S : \A y \in S : x <= y

\* the selected video format is one of the catalog's video formats
VideoChosen ==
    \E i \in VideoSet : selected_video_fmt = Formats[i]

-----------------------------------------------------------------------------
(* C2 *)

\* C2: in video mode, when at least one video format has exactly the target
\* height, the selected video format has height = target height.
C2_ExactHeightSelected ==
    (Selected /\ VideoMode /\ ExactSet # {})
        => (VideoChosen /\ selected_video_fmt.height = Target)

\* an exact match is selected although a higher format and a better-scored
\* lower format are on offer
C2_Witness ==
    /\ pc = "planned"
    /\ VideoMode
    /\ ExactSet # {}
    /\ AboveSet \cup BelowSet # {}
    /\ \E i \in AboveSet \cup BelowSet :
          score_format(Formats[i]) > score_format(selected_video_fmt)
    /\ selected_video_fmt.height = Target

-----------------------------------------------------------------------------
(* C3 *)

\* C3 as claimed: with no video format at the target height and at least one
\* below it, the selected video format has the greatest height below the
\* target and never a height above the target.
C3_ClosestBelowSelected ==
    (Selected /\ VideoMode /\ ExactSet = {} /\ BelowSet # {})
        => /\ VideoChosen
           /\ selected_video_fmt.height = MaxOf(HeightsOf(BelowSet))
           /\ selected_video_fmt.height <= Target

\* C3 as amended: with no video format at the target height and at least one
\* below it, the selected video format has the greatest height of all video
\* formats: the greatest height below the target when no video format is
\* above the target, and a height above the target otherwise.
C3_HighestSelectedWithoutExact ==
    (Selected /\ VideoMode /\ ExactSet = {} /\ BelowSet # {})
        => /\ VideoChosen
           /\ selected_video_fmt.height = MaxOf(HeightsOf(VideoSet))
           /\ AboveSet = {}
                => selected_video_fmt.height = MaxOf(HeightsOf(BelowSet))
           /\ AboveSet # {} => selected_video_fmt.height > Target

\* formats below and above the target, none at it: one above is selected
C3_Witness ==
    /\ pc = "planned"
    /\ VideoMode
    /\ ExactSet = {}
    /\ BelowSet # {}
    /\ AboveSet # {}
    /\ selected_video_fmt.height > Target

-----------------------------------------------------------------------------
(* C4 *)

\* C4 as claimed: when every video format is above the target height, the
\* selected video format has the smallest height among them.
C4_ClosestAboveSelected ==
    (Selected /\ VideoMode /\ VideoSet # {} /\ AboveSet = VideoSet)
        => /\ VideoChosen
           /\ selected_video_fmt.height = MinOf(HeightsOf(VideoSet))

\* C4 as amended: when every video format is above the target height, the
\* selected video format has the greatest height among them.
C4_HighestAboveSelected ==
    (Selected /\ VideoMode /\ VideoSet # {} /\ AboveSet = VideoSet)
        => /\ VideoChosen
           /\ \A i \in VideoSet : Formats[i].height <= selected_video_fmt.height

\* two different heights, both above the target: the higher one is selected
C4_Witness ==
    /\ pc = "planned"
    /\ VideoMode
    /\ AboveSet = VideoSet
    /\ Cardinality(HeightsOf(VideoSet)) > 1
    /\ selected_video_fmt.height = MaxOf(HeightsOf(VideoSet))

-----------------------------------------------------------------------------
(* C5 *)

\* C5: in video mode, for every requested quality, a catalog with at least
\* one video format resolves to one of its video formats, and "Could not find
\* suitable video stream" is raised exactly when it has no video format.
C5_NoErrorWithVideoFormats ==
    (Left /\ VideoMode)
        => /\ VideoSet # {} => (pc = "planned" /\ error = "" /\ VideoChosen)
           /\ (error = "Could not find suitable video stream") => (VideoSet = {})

-----------------------------------------------------------------------------
(* C6 *)

\* positions of the formats carrying audio
AudioSet == {i \in DOMAIN Formats : Formats[i].acodec # sNone}

\* the first position, in catalog order, of the highest declared bitrate
FirstHighestBitrate(S) ==
    CHOOSE i \in S :
        /\ \A j \in S : Formats[j].tbr <= Formats[i].tbr
        /\ \A j \in S : Formats[j].tbr = Formats[i].tbr => i <= j

\* C6: in audio mode the input is the format with the highest declared
\* bitrate among all formats carrying audio, the first in catalog order on a
\* tie, and an error is raised exactly when no format carries audio.
C6_AudioModeHighestBitrate ==
    (Selected /\ ~VideoMode)
        => /\ (pc = "raised") = (AudioSet = {})
           /\ AudioSet = {} => error = "No suitable stream found"
           /\ AudioSet # {}
                => /\ best_audio = Formats[FirstHighestBitrate(AudioSet)]
                   /\ cmd.inputs = <<best_audio.url>>

\* two formats tie on the highest bitrate, one of them carrying video too,
\* and the first of them is the input
C6_Witness ==
    /\ pc = "planned"
    /\ ~VideoMode
    /\ \E i, j \in AudioSet :
          /\ i < j
          /\ Formats[i].tbr = Formats[j].tbr
          /\ Formats[i].tbr > 0
          /\ Formats[i].vcodec # Formats[j].vcodec
          /\ \A k \in AudioSet : Formats[k].tbr <= Formats[i].tbr
          /\ \A k \in AudioSet : Formats[k].tbr = Formats[i].tbr => i <= k
          /\ cmd.inputs = <<Formats[i].url>>

-----------------------------------------------------------------------------
(* C7 *)

\* the allow-list of the claim: letters, digits, dash, underscore, dot, space
AllowList == Letters \cup Digits \cup {"-", "_", ".", " "}

\* the filename without its ".ext" suffix
TitlePart == SubSeq(filename, 1, Len(filename) - Len(ExtChars(ext)) - 1)

\* C7: for every title the filename is a title part followed by the
\* extension; the title part has at most 200 characters, all of the
\* allow-list, and is not empty.
C7_FilenameSafeAndNonEmpty ==
    Selected
        => /\ filename = TitlePart \o <<".">> \o ExtChars(ext)
           /\ Len(TitlePart) <= 200
           /\ \A i \in DOMAIN TitlePart : TitlePart[i] \in AllowList
           /\ Len(TitlePart) > 0

-----------------------------------------------------------------------------
(* C8 *)

\* the codec tier of the claim: AV1 over VP9 over H.264 over other codecs
CodecTier(f) ==
    LET v == Lower(f.vcodec)
    IN  IF Contains(v, sAv01) THEN 3
        ELSE IF Contains(v, sVp9) \/ Contains(v, sVp09) THEN 2
        ELSE IF Contains(v, sAvc) \/ Contains(v, sH264) THEN 1
        ELSE 0

\* C8: among the video formats at exactly the target height the selected one
\* is of the best codec tier present, whatever the declared bitrates, and has
\* the highest declared bitrate of that tier.
C8_CodecTierBeforeBitrate ==
    (Selected /\ VideoMode /\ ExactSet # {})
        => \A i \in ExactSet :
              /\ CodecTier(Formats[i]) <= CodecTier(selected_video_fmt)
              /\ CodecTier(Formats[i]) = CodecTier(selected_video_fmt)
                    => Formats[i].tbr <= selected_video_fmt.tbr

-----------------------------------------------------------------------------
(* C9 *)

AudioOnlySet == {i \in DOMAIN Formats :
                    Formats[i].acodec # sNone /\ Formats[i].vcodec = sNone}

\* the codec family of the claim: Opus or Vorbis for WebM, AAC/M4A for MP4
InFamily(f, e) ==
    IF e = "webm"
    THEN Contains(f.acodec, sOpus) \/ Contains(f.acodec, cVorbis)
    ELSE Contains(f.acodec, sMp4a)

FamilySet == {i \in AudioOnlySet : InFamily(Formats[i], ext)}

\* C9: in video mode a separate audio input is used only when the chosen
\* video format has no audio track; it is an audio-only format, of the family
\* matching the container whenever one is present and otherwise of the
\* highest bitrate; without audio-only formats there is no audio input and
\* the selection still succeeds.
C9_AudioPairing ==
    (pc = "planned" /\ VideoMode)
        => /\ best_audio # NoFormat => selected_video_fmt.acodec = sNone
           /\ (selected_video_fmt.acodec = sNone /\ AudioOnlySet = {})
                => best_audio = NoFormat
           /\ (selected_video_fmt.acodec = sNone /\ AudioOnlySet # {})
                => /\ \E i \in AudioOnlySet : best_audio = Formats[i]
                   /\ FamilySet # {} => InFamily(best_audio, ext)
                   /\ FamilySet = {}
                        => \A i \in AudioOnlySet :
                              Formats[i].tbr <= best_audio.tbr

-----------------------------------------------------------------------------
(* C1 *)

\* the consumer is done with the byte sequence: the generator ran to its end
\* or was closed
ConsumerDone == gen_pc \in {"done", "closed"}

\* C1: once the consumer is done with the byte sequence (abandoned before the
\* first chunk, after some chunk, or consumed to exhaustion), ffmpeg is not
\* running and its stdout and stderr handles are closed.
C1_CleanupOnEveryConsumerPath ==
    ConsumerDone
        => /\ proc = "exited"
           /\ ~stdout_open
           /\ ~stderr_open

-----------------------------------------------------------------------------
(* C10 *)

\* C10: when ffmpeg has ended by itself with a non-zero status and the relay
\* loop has read its output to exhaustion and finished, the failure was
\* reported, and every chunk ffmpeg produced was yielded.
C10_FailureReportedAfterExhaustion ==
    (gen_pc = "done" /\ eof_seen /\ proc = "exited" /\ ~killed
        /\ exit_status # 0)
        => (reported /\ yielded = produced)

-----------------------------------------------------------------------------
(* C11 *)

SourceIsH264 ==
    \/ Contains(Lower(selected_video_fmt.vcodec), sAvc)
    \/ Contains(Lower(selected_video_fmt.vcodec), sH264)

SourceIsVp9 ==
    \/ Contains(Lower(selected_video_fmt.vcodec), sVp9)
    \/ Contains(Lower(selected_video_fmt.vcodec), sVp09)

\* the source codec is the one of the target container
SourceCompatible ==
    \/ ext = "mp4" /\ SourceIsH264
    \/ ext = "webm" /\ SourceIsVp9

\* the CRF scale: 25 below 480 lines, one less for every band reached
\* (480, 720, 1080, 1440, 2160, 4320)
ScaledCrf ==
    LET bands == {b \in {480, 720, 1080, 1440, 2160, 4320} :
                    selected_video_fmt.height >= b}
    IN  <<"25", "24", "23", "22", "21", "20", "19">>[Cardinality(bands) + 1]

\* a plan of video mode, with one input or with two
VideoPlan == pc = "planned" /\ VideoMode /\ Len(cmd.inputs) \in {1, 2}

\* C11 as claimed: the video codec directive is copy whenever the source codec
\* is the one of the target container (H.264 for MP4, VP9 for WebM) and a
\* transcode with the height-scaled CRF otherwise, for one and two inputs.
C11_CopyWhenCompatible ==
    (pc = "planned" /\ VideoMode)
        => /\ VideoPlan
           /\ SourceCompatible => (cmd.cv = "copy" /\ cmd.crf = "")
           /\ ~SourceCompatible
                => (cmd.cv \in {"libx264", "libvpx-vp9"} /\ cmd.crf = ScaledCrf)

\* C11 as amended: the video codec directive is copy only for WebM output of a
\* VP9 source; WebM output of any other source is transcoded to VP9 and MP4
\* output of every source, H.264 included, is transcoded to H.264, both with
\* the height-scaled CRF, for one and two inputs.
C11_CopyOnlyVp9IntoWebm ==
    (pc = "planned" /\ VideoMode)
        => /\ VideoPlan
           /\ (ext = "webm" /\ SourceIsVp9)
                => (cmd.cv = "copy" /\ cmd.crf = "")
           /\ (ext = "webm" /\ ~SourceIsVp9)
                => (cmd.cv = "libvpx-vp9" /\ cmd.crf = ScaledCrf)
           /\ ext = "mp4" => (cmd.cv = "libx264" /\ cmd.crf = ScaledCrf)

\* an H.264 source paired with a separate audio input is transcoded for MP4
C11_Witness ==
    /\ pc = "planned"
    /\ VideoMode
    /\ ext = "mp4"
    /\ SourceIsH264
    /\ Len(cmd.inputs) = 2
    /\ selected_video_fmt.height >= 1080
    /\ cmd.cv = "libx264"
    /\ cmd.crf = ScaledCrf

-----------------------------------------------------------------------------
(* C12 *)

\* stream_media raised because the startup check found ffmpeg exited
StartupFailed == pc = "raised" /\ error = "FFmpeg failed to start"

\* C12: when stream_media raises because the startup check finds ffmpeg
\* already exited, the process's stdout and stderr handles are closed by the
\* time the error propagates, and no byte sequence is returned.
C12_NoHandleSurvivesStartupFailure ==
    StartupFailed
        => /\ ~stdout_open
           /\ ~stderr_open
           /\ gen_pc = "none"

====
